---- MODULE Spec2Model ----
(***************************************************************************)
(* State-machine model of src/app.py, a Streamlit dashboard script.        *)
(*                                                                         *)
(* One "render cycle" is one top-to-bottom run of the script.  Streamlit   *)
(* starts a run when the page is opened, when the user changes a widget,   *)
(* and when the script calls st.rerun().  Between runs the script is not   *)
(* executing (pc = "idle").  st.session_state survives across runs of one  *)
(* session; the st.cache_data stores survive across runs as well.          *)
(*                                                                         *)
(* Time is the wall clock in seconds.  The clock advances while the page   *)
(* is idle and while the ticker loop blocks on its provider calls (the     *)
(* time a ticker took is added once it has been processed); the statements *)
(* from the top of the script to the refresh check are local and take less *)
(* than one clock unit.                                                    *)
(*                                                                         *)
(* What the page shows is recorded as a sequence of elements, one per      *)
(* st.* call that a ticker's section makes; the styling, the background    *)
(* video and image, and the logo (whose fetch swallows its own failures,   *)
(* lines 155-160) are part of the "header" element.  The ticker box holds  *)
(* the list that line 99 parses out of its text.  The user touches the     *)
(* sidebar only while the page waits.                                      *)
(***************************************************************************)
EXTENDS Integers, Sequences, FiniteSets, TLC

(* ---------------------------------------------------------------------- *)
(* Bounds of the model                                                     *)
(* ---------------------------------------------------------------------- *)

\* The clock advances at most MaxShortTicks times by ShortStep (the time scale
\* of the refresh slider: its top position), or at most MaxLongTicks times by
\* LongStep (the time scale of the cache expiry: the shortest ttl).
MaxShortTicks == 2
MaxLongTicks == 2
ShortStep == 5 * 60
LongStep == 30 * 60

\* Ticker symbols the user types.
Tickers == {"AAPL", "TSLA"}

\* Contents of the ticker box after parsing (line 99); duplicates are kept.
TickerInputs == {<<"AAPL", "TSLA">>, <<"AAPL", "AAPL">>, <<>>}

\* Options of the period selectbox that the user picks (subset of line 51).
PeriodChoices == {"1mo", "max"}

\* Positions of the refresh slider that the user picks (within 10..300).
RefreshRates == {60, 300}

\* Contents of the API key box.
ApiKeys == {"", "k1", "k2"}

\* Closing prices a price-history response may hold.
Histories == {<<>>, <<105>>, <<105, 103>>}

\* News items a 200 response may hold, before the filter of line 130.
GoodItem == [headline |-> TRUE, url |-> TRUE]
NoUrlItem == [headline |-> TRUE, url |-> FALSE]
NewsBodies == {<<>>, <<GoodItem>>, <<NoUrlItem, GoodItem>>}

(* ---------------------------------------------------------------------- *)
(* Program constants                                                       *)
(* ---------------------------------------------------------------------- *)

TTL_STOCK == 3600
TTL_INFO == 3600
TTL_NEWS == 1800
NEWS_SHOWN == 5
DEFAULT_REFRESH == 60
DEFAULT_PERIOD == "1mo"
\* the default text of line 50, "AAPL, TSLA, NVDA", cut to its first two symbols
DEFAULT_TICKERS == <<"AAPL", "TSLA">>
DEFAULT_API_KEY == ""
PERIOD_5D == "5d"

VARIABLES
    clock,          \* time.time()
    tickers,        \* parsed ticker list of the current run
    period,         \* selected period
    refresh_rate,   \* slider value
    finnhub_api,    \* API key box
    has_session,    \* "last_refresh" in st.session_state
    last_refresh,   \* st.session_state["last_refresh"]
    stock_cache,    \* st.cache_data store of get_stock_data
    info_cache,     \* st.cache_data store of get_info_cached
    news_cache,     \* st.cache_data store of get_company_news
    pc,             \* "sched" | "loop" | "idle"
    idx,            \* position of the for loop in tickers
    out,            \* page elements emitted by the last step
    calls,          \* cached-function calls made by the last step
    reruns          \* st.rerun() calls since the last run Streamlit started

vars == <<clock, tickers, period, refresh_rate, finnhub_api, has_session,
          last_refresh, stock_cache, info_cache, news_cache, pc, idx, out,
          calls, reruns>>

(* ---------------------------------------------------------------------- *)
(* st.cache_data (lines 110, 114, 118): one store per decorated function,  *)
(* keyed by the call's arguments; an entry is served while it is younger   *)
(* than the ttl.                                                           *)
(* ---------------------------------------------------------------------- *)

NoEntry == [present |-> FALSE]
Entry(v, now) == [present |-> TRUE, val |-> v, at |-> now]

\* an entry that never expires
Fresh_Forever(e, now, ttl) == e.present

Fresh(e, now, ttl) == e.present /\ now - e.at < ttl

StockKey(t, p) == <<t, p>>
InfoKey(t) == <<t>>

\* a key built from the symbol alone
NewsKey_SymbolOnly(symbol, api_key) == <<symbol, "">>

NewsKey(symbol, api_key) == <<symbol, api_key>>

StockKeys == Tickers \X (PeriodChoices \cup {PERIOD_5D})
InfoKeys == {<<t>> : t \in Tickers}
NewsKeys == Tickers \X ApiKeys

(* ---------------------------------------------------------------------- *)
(* Provider responses                                                      *)
(* ---------------------------------------------------------------------- *)

\* yf.Ticker(t).history(period=p): a table of closes, or an exception.
StockResponses ==
    {[ok |-> FALSE, closes |-> <<>>]} \cup {[ok |-> TRUE, closes |-> h] : h \in Histories}

\* yf.Ticker(t).get_info(): a metadata record, or an exception.
InfoResponses == {[ok |-> FALSE], [ok |-> TRUE]}

\* requests.get(FINNHUB_NEWS_URL, ...): a 200 body, another status, or an exception.
NewsResponses ==
    {[kind |-> "exception", body |-> <<>>], [kind |-> "non200", body |-> <<>>]}
    \cup {[kind |-> "ok", body |-> b] : b \in NewsBodies}

Raised == [raised |-> TRUE]

Call(fn, args, now, hit, failed, ret) ==
    [fn |-> fn, args |-> args, t |-> now, hit |-> hit, failed |-> failed, ret |-> ret]

(* ---------------------------------------------------------------------- *)
(* Cached functions.  Each returns the store after the call, whether the   *)
(* call raised, the value returned and the record of the call.             *)
(* ---------------------------------------------------------------------- *)

\* get_stock_data(ticker, period), lines 110-112
get_stock_data(c, t, p, now, resp) ==
    LET key == StockKey(t, p)
        e == c[key]
        v == [ticker |-> t, period |-> p, closes |-> resp.closes, asof |-> now]
    IN  IF Fresh(e, now, TTL_STOCK)
        THEN [cache |-> c, raised |-> FALSE, val |-> e.val,
              call |-> Call("stock", <<t, p>>, now, TRUE, FALSE, e.val)]
        ELSE IF ~resp.ok
        THEN [cache |-> c, raised |-> TRUE, val |-> Raised,
              call |-> Call("stock", <<t, p>>, now, FALSE, TRUE, Raised)]
        ELSE [cache |-> [c EXCEPT ![key] = Entry(v, now)], raised |-> FALSE, val |-> v,
              call |-> Call("stock", <<t, p>>, now, FALSE, FALSE, v)]

\* get_info_cached(ticker), lines 114-116
get_info_cached(c, t, now, resp) ==
    LET key == InfoKey(t)
        e == c[key]
        v == [ticker |-> t, asof |-> now]
    IN  IF Fresh(e, now, TTL_INFO)
        THEN [cache |-> c, raised |-> FALSE, val |-> e.val,
              call |-> Call("info", <<t>>, now, TRUE, FALSE, e.val)]
        ELSE IF ~resp.ok
        THEN [cache |-> c, raised |-> TRUE, val |-> Raised,
              call |-> Call("info", <<t>>, now, FALSE, TRUE, Raised)]
        ELSE [cache |-> [c EXCEPT ![key] = Entry(v, now)], raised |-> FALSE, val |-> v,
              call |-> Call("info", <<t>>, now, FALSE, FALSE, v)]

\* line 130: keep the items that have a headline and a url
FilterItems(body) == SelectSeq(body, LAMBDA item : item.headline /\ item.url)

\* body of get_company_news, lines 120-133, for a non-empty api_key
NewsBody(resp) == IF resp.kind = "ok" THEN FilterItems(resp.body) ELSE <<>>

\* get_company_news(symbol, api_key), lines 118-133.  The function returns a
\* list on every path, so st.cache_data stores whatever it returned.
get_company_news(c, symbol, api_key, now, resp) ==
    LET key == NewsKey(symbol, api_key)
        e == c[key]
        items == IF api_key = "" THEN <<>> ELSE NewsBody(resp)
        v == [symbol |-> symbol, api_key |-> api_key, items |-> items, asof |-> now]
        failed == api_key # "" /\ resp.kind # "ok"
    IN  IF Fresh(e, now, TTL_NEWS)
        THEN [cache |-> c, raised |-> FALSE, val |-> e.val,
              call |-> Call("news", <<symbol, api_key>>, now, TRUE, FALSE, e.val)]
        ELSE [cache |-> [c EXCEPT ![key] = Entry(v, now)], raised |-> FALSE, val |-> v,
              call |-> Call("news", <<symbol, api_key>>, now, FALSE, failed, v)]

\* The responses a call can meet: the provider is reached only on a miss.
StockResponsesAt(c, t, p, now) ==
    IF Fresh(c[StockKey(t, p)], now, TTL_STOCK) THEN {[ok |-> TRUE, closes |-> <<>>]}
    ELSE StockResponses

InfoResponsesAt(c, t, now) ==
    IF Fresh(c[InfoKey(t)], now, TTL_INFO) THEN {[ok |-> TRUE]} ELSE InfoResponses

NewsResponsesAt(c, symbol, api_key, now) ==
    IF Fresh(c[NewsKey(symbol, api_key)], now, TTL_NEWS) THEN {[kind |-> "ok", body |-> <<>>]}
    ELSE NewsResponses

(* ---------------------------------------------------------------------- *)
(* Page elements                                                           *)
(* ---------------------------------------------------------------------- *)

Ev(kind, t) == [kind |-> kind, ticker |-> t, change |-> 0, pct |-> 0]

\* The outcomes of drawing the chart (lines 166-181): third-party plotting
\* code that may raise.
ChartOutcomes == {"ok", "raise"}

\* pct of lines 196-197 as f"{pct:.2f}" shows it: hundredths of a percent,
\* rounded to the nearest (prev > 0)
PctHundredths(change, prev) ==
    LET num == change * 10000
    IN  IF num >= 0 THEN (2 * num + prev) \div (2 * prev)
        ELSE -((2 * (-num) + prev) \div (2 * prev))

\* a guard that asks for one point too many
DailyChange_Off(t, closes) ==
    IF Len(closes) > 2
    THEN LET last == closes[Len(closes)]
             prev == closes[Len(closes) - 1]
             change == last - prev
         IN  <<[kind |-> "daily_change", ticker |-> t, change |-> change,
                pct |-> PctHundredths(change, prev)]>>
    ELSE <<>>

\* lines 193-197: the daily-change metric of column 4
DailyChange(t, closes) ==
    IF Len(closes) >= 2
    THEN LET last == closes[Len(closes)]
             prev == closes[Len(closes) - 1]
             change == last - prev
         IN  <<[kind |-> "daily_change", ticker |-> t, change |-> change,
                pct |-> PctHundredths(change, prev)]>>
    ELSE <<>>

Min(a, b) == IF a <= b THEN a ELSE b

\* lines 233-243: the news list, or the notice that there is none
NewsList(t, items, api_key) ==
    IF items # <<>>
    THEN [i \in 1..Min(Len(items), NEWS_SHOWN) |-> Ev("news_item", t)]
    ELSE IF api_key # "" THEN <<Ev("no_news", t)>> ELSE <<>>

\* lines 145-163
Header(t) == <<Ev("header", t)>>
\* lines 165-181
Chart(t) == <<Ev("chart", t)>>
\* lines 184-191
Metrics(t) == <<Ev("current_price", t), Ev("market_cap", t), Ev("high_low", t)>>
\* lines 199-224
Summary(t) == <<Ev("summary", t)>>
\* line 142
Warning(t) == <<Ev("warning", t)>>
\* line 247
Error(t) == <<Ev("error", t)>>

(* ---------------------------------------------------------------------- *)
(* Initial state: the page is opened for the first time                    *)
(* ---------------------------------------------------------------------- *)

Init ==
    /\ clock = 0
    /\ tickers = DEFAULT_TICKERS
    /\ period = DEFAULT_PERIOD
    /\ refresh_rate = DEFAULT_REFRESH
    /\ finnhub_api = DEFAULT_API_KEY
    /\ has_session = FALSE
    /\ last_refresh = 0
    /\ stock_cache = [k \in StockKeys |-> NoEntry]
    /\ info_cache = [k \in InfoKeys |-> NoEntry]
    /\ news_cache = [k \in NewsKeys |-> NoEntry]
    /\ pc = "sched"
    /\ idx = 1
    /\ out = <<>>
    /\ calls = <<>>
    /\ reruns = 0

(* ---------------------------------------------------------------------- *)
(* Auto-refresh setup, lines 101-107                                       *)
(* ---------------------------------------------------------------------- *)

\* a refresh that fires as soon as the interval is reached
RefreshDue_AtInterval(now, last, rate) == now - last >= rate

\* line 105
RefreshDue(now, last, rate) == now - last > rate

\* a refresh that keeps the old timestamp
ResetRefresh_Stale(now, last) == last

\* line 106
ResetRefresh(now, last) == now

AutoRefresh ==
    /\ pc = "sched"
    /\ IF ~has_session
       THEN /\ has_session' = TRUE
            /\ last_refresh' = clock
            /\ pc' = "loop"
            /\ UNCHANGED reruns
       ELSE IF RefreshDue(clock, last_refresh, refresh_rate)
       THEN /\ last_refresh' = ResetRefresh(clock, last_refresh)
            /\ pc' = "sched"
            /\ reruns' = reruns + 1
            /\ UNCHANGED has_session
       ELSE /\ pc' = "loop"
            /\ UNCHANGED <<has_session, last_refresh, reruns>>
    /\ idx' = 1
    /\ out' = <<>>
    /\ calls' = <<>>
    /\ UNCHANGED <<clock, tickers, period, refresh_rate, finnhub_api,
                   stock_cache, info_cache, news_cache>>

(* ---------------------------------------------------------------------- *)
(* Main dashboard loop, lines 136-247: one ticker per step                 *)
(* ---------------------------------------------------------------------- *)

Finish(sc, ic, nc, section, log) ==
    /\ stock_cache' = sc
    /\ info_cache' = ic
    /\ news_cache' = nc
    /\ out' = section
    /\ calls' = log
    /\ idx' = idx + 1
    /\ UNCHANGED <<clock, tickers, period, refresh_rate, finnhub_api,
                   has_session, last_refresh, pc, reruns>>

\* a handler placed around the loop instead of inside it
Except_Abort(t, sc, ic, section, log) ==
    /\ stock_cache' = sc
    /\ info_cache' = ic
    /\ out' = section \o Error(t)
    /\ calls' = log
    /\ idx' = Len(tickers) + 1
    /\ UNCHANGED <<clock, tickers, period, refresh_rate, finnhub_api,
                   has_session, last_refresh, news_cache, pc, reruns>>

\* lines 246-247: the handler of the ticker's try block
Except(t, sc, ic, section, log) ==
    Finish(sc, ic, news_cache, section \o Error(t), log)

\* an emptiness test that never holds
Empty_Never(closes) == FALSE

\* line 141: hist.empty
Empty(closes) == closes = <<>>

\* a key test that never holds
NoKey_Never(api_key) == FALSE

\* line 228: not finnhub_api
NoKey(api_key) == api_key = ""

\* lines 226-245, after the metrics and the summary
NewsStep(t, ic, sc, section, log) ==
    IF NoKey(finnhub_api)
    THEN Finish(sc, ic, news_cache,
                section \o <<Ev("news_header", t), Ev("news_prompt", t)>>
                        \o NewsList(t, <<>>, finnhub_api),
                log)
    ELSE \E rn \in NewsResponsesAt(news_cache, t, finnhub_api, clock) :
            LET n == get_company_news(news_cache, t, finnhub_api, clock, rn)
            IN  Finish(sc, ic, n.cache,
                       section \o <<Ev("news_header", t)>>
                               \o NewsList(t, n.val.items, finnhub_api),
                       Append(log, n.call))

ProcessTicker ==
    /\ pc = "loop"
    /\ idx <= Len(tickers)
    /\ LET t == tickers[idx]
       IN  \E ri \in InfoResponsesAt(info_cache, t, clock) :
             LET a == get_info_cached(info_cache, t, clock, ri)
             IN  IF a.raised
                 THEN Except(t, stock_cache, a.cache, <<>>, <<a.call>>)
                 ELSE
                 \E rh \in StockResponsesAt(stock_cache, t, period, clock) :
                   LET b == get_stock_data(stock_cache, t, period, clock, rh)
                   IN  IF b.raised
                       THEN Except(t, b.cache, a.cache, <<>>, <<a.call, b.call>>)
                       ELSE IF Empty(b.val.closes)
                       THEN Finish(b.cache, a.cache, news_cache, Warning(t),
                                   <<a.call, b.call>>)
                       ELSE
                       \E chart \in ChartOutcomes :
                         IF chart = "raise"
                         THEN Except(t, b.cache, a.cache, Header(t),
                                     <<a.call, b.call>>)
                         ELSE
                         \E r5 \in StockResponsesAt(b.cache, t, PERIOD_5D, clock) :
                           LET d == get_stock_data(b.cache, t, PERIOD_5D, clock, r5)
                               top == Header(t) \o Chart(t) \o Metrics(t)
                           IN  IF d.raised
                               THEN Except(t, d.cache, a.cache, top,
                                           <<a.call, b.call, d.call>>)
                               ELSE NewsStep(t, a.cache, d.cache,
                                             top \o DailyChange(t, d.val.closes)
                                                 \o Summary(t),
                                             <<a.call, b.call, d.call>>)

\* the for loop is exhausted: the run ends and the page waits
FinishRun ==
    /\ pc = "loop"
    /\ idx > Len(tickers)
    /\ pc' = "idle"
    /\ out' = <<>>
    /\ calls' = <<>>
    /\ UNCHANGED <<clock, tickers, period, refresh_rate, finnhub_api, has_session,
                   last_refresh, stock_cache, info_cache, news_cache, idx, reruns>>

(* ---------------------------------------------------------------------- *)
(* The clock                                                               *)
(* ---------------------------------------------------------------------- *)

\* An entry that has outlived its ttl is gone from the store.
Expire(c, now, ttl) == [k \in DOMAIN c |-> IF Fresh(c[k], now, ttl) THEN c[k] ELSE NoEntry]

Tick(d, horizon) ==
    /\ \/ pc = "idle"
       \/ pc = "loop" /\ idx > 1
    /\ clock + d <= horizon
    /\ clock' = clock + d
    /\ stock_cache' = Expire(stock_cache, clock + d, TTL_STOCK)
    /\ info_cache' = Expire(info_cache, clock + d, TTL_INFO)
    /\ news_cache' = Expire(news_cache, clock + d, TTL_NEWS)
    /\ out' = <<>>
    /\ calls' = <<>>
    /\ UNCHANGED <<tickers, period, refresh_rate, finnhub_api, has_session,
                   last_refresh, pc, idx, reruns>>

TickShort == Tick(ShortStep, MaxShortTicks * ShortStep)

TickLong == Tick(LongStep, MaxLongTicks * LongStep)

(* ---------------------------------------------------------------------- *)
(* User interaction with the sidebar (lines 48-71): Streamlit stores the   *)
(* widget's new value and runs the script again from the top.              *)
(* ---------------------------------------------------------------------- *)

StartRun ==
    /\ pc' = "sched"
    /\ idx' = 1
    /\ out' = <<>>
    /\ calls' = <<>>
    /\ reruns' = 0
    /\ UNCHANGED <<clock, has_session, last_refresh, stock_cache, info_cache,
                   news_cache>>

\* line 50 and line 99
ChangeTickers ==
    /\ pc = "idle"
    /\ \E l \in TickerInputs : l # tickers /\ tickers' = l
    /\ StartRun
    /\ UNCHANGED <<period, refresh_rate, finnhub_api>>

\* line 51
ChangePeriod ==
    /\ pc = "idle"
    /\ \E p \in PeriodChoices : p # period /\ period' = p
    /\ StartRun
    /\ UNCHANGED <<tickers, refresh_rate, finnhub_api>>

\* line 52
ChangeRefreshRate ==
    /\ pc = "idle"
    /\ \E r \in RefreshRates : r # refresh_rate /\ refresh_rate' = r
    /\ StartRun
    /\ UNCHANGED <<tickers, period, finnhub_api>>

\* lines 56-61
ChangeApiKey ==
    /\ pc = "idle"
    /\ \E k \in ApiKeys : k # finnhub_api /\ finnhub_api' = k
    /\ StartRun
    /\ UNCHANGED <<tickers, period, refresh_rate>>

\* lines 65-71: a widget that changes none of the values above
ChangeBackground ==
    /\ pc = "idle"
    /\ StartRun
    /\ UNCHANGED <<tickers, period, refresh_rate, finnhub_api>>

\* A session on the time scale of the refresh slider.
Next ==
    \/ AutoRefresh
    \/ ProcessTicker
    \/ FinishRun
    \/ TickShort
    \/ ChangeRefreshRate
    \/ ChangeBackground

Spec == Init /\ [][Next]_vars

\* A session on the time scale of the cache expiry.
NextCache ==
    \/ AutoRefresh
    \/ ProcessTicker
    \/ FinishRun
    \/ TickLong
    \/ ChangeBackground

SpecCache == Init /\ [][NextCache]_vars

\* A session in which the user edits the ticker list and the API key.
NextKeys ==
    \/ AutoRefresh
    \/ ProcessTicker
    \/ FinishRun
    \/ ChangeApiKey
    \/ ChangeTickers

SpecKeys == Init /\ [][NextKeys]_vars

\* A session in which the user switches between periods.
NextPeriod ==
    \/ AutoRefresh
    \/ ProcessTicker
    \/ FinishRun
    \/ ChangePeriod
    \/ ChangeBackground

SpecPeriod == Init /\ [][NextPeriod]_vars

(* ====================================================================== *)
(* Properties                                                              *)
(* ====================================================================== *)

Elapsed == clock - last_refresh

(* ---------------------------------------------------------------------- *)
(* C1.  A render cycle that starts with more than refresh_rate seconds     *)
(* elapsed since last_refresh triggers exactly one refresh: last_refresh   *)
(* becomes the current time, the script restarts from the top with an      *)
(* empty page, and the run that follows finds the refresh not due, so it   *)
(* goes on to the ticker loop.                                             *)
(* ---------------------------------------------------------------------- *)
C1_RefreshOnce ==
    /\ [][(pc = "sched" /\ has_session /\ Elapsed > refresh_rate)
            => /\ last_refresh' = clock
               /\ pc' = "sched"
               /\ idx' = 1
               /\ out' = <<>>
               /\ reruns' = reruns + 1]_vars
    /\ [][(pc = "sched" /\ reruns >= 1)
            => (pc' = "loop" /\ reruns' = reruns /\ last_refresh' = last_refresh)]_vars
    /\ [](reruns <= 1)

\* a refresh has fired at a later time than the session's start and the run
\* that followed it has reached the ticker loop
C1_Witness ==
    /\ pc = "loop"
    /\ reruns = 1
    /\ last_refresh = clock
    /\ clock > 0

(* ---------------------------------------------------------------------- *)
(* C10.  The first cycle of a session stores the current time in           *)
(* last_refresh and triggers no refresh.  A later cycle that starts with   *)
(* elapsed <= refresh_rate (equality included) triggers none either and    *)
(* leaves last_refresh alone.  In both cases the cycle enters the ticker   *)
(* loop at the first ticker, and from then on the loop runs to the end of  *)
(* the list one ticker at a time: nothing in the loop touches last_refresh *)
(* or restarts the script, whatever the elapsed time has become.           *)
(* ---------------------------------------------------------------------- *)
C10_Waiting ==
    /\ [][(pc = "sched" /\ ~has_session)
            => /\ has_session'
               /\ last_refresh' = clock
               /\ pc' = "loop"
               /\ idx' = 1
               /\ reruns' = reruns]_vars
    /\ [][(pc = "sched" /\ has_session /\ Elapsed <= refresh_rate)
            => /\ last_refresh' = last_refresh
               /\ pc' = "loop"
               /\ idx' = 1
               /\ reruns' = reruns]_vars
    /\ [][pc = "loop"
            => /\ last_refresh' = last_refresh
               /\ reruns' = reruns
               /\ tickers' = tickers
               /\ \/ pc' = "loop" /\ idx' \in {idx, idx + 1}
                  \/ pc' = "idle" /\ idx > Len(tickers)]_vars

\* a later cycle has passed the check with elapsed equal to the interval
C10_Witness ==
    /\ pc = "loop"
    /\ idx = 1
    /\ reruns = 0
    /\ clock > 0
    /\ Elapsed = refresh_rate

(* ---------------------------------------------------------------------- *)
(* C5.  The dashboard refreshes on a timer: when the page is waiting and   *)
(* more than refresh_rate seconds have elapsed since last_refresh, the     *)
(* script runs again (and so reaches the refresh check) without the user   *)
(* touching anything.                                                      *)
(* ---------------------------------------------------------------------- *)
C5_TimerFires ==
    (pc = "idle" /\ has_session /\ Elapsed > refresh_rate)
        => ENABLED (AutoRefresh \/ ProcessTicker \/ FinishRun)

(* ---------------------------------------------------------------------- *)
(* Reading the page and the call log                                       *)
(* ---------------------------------------------------------------------- *)

Has(o, kind) == \E i \in DOMAIN o : o[i].kind = kind
Count(o, kind) == Cardinality({i \in DOMAIN o : o[i].kind = kind})
KindsOf(o) == [i \in DOMAIN o |-> o[i].kind]

\* the calls of the last step to get_stock_data that returned a table
Is5dCall(c) == c.fn = "stock" /\ c.args[2] = PERIOD_5D /\ ~c.failed
IsPeriodCall(c) == c.fn = "stock" /\ c.args[2] # PERIOD_5D /\ ~c.failed

(* ---------------------------------------------------------------------- *)
(* C7.  When the 5-day history of a ticker has fewer than 2 rows the       *)
(* daily-change metric is left out, no error is reported, and the other    *)
(* metrics, the summary and the news section are rendered; with 2 rows or  *)
(* more the metric is shown, its change being the last close minus the     *)
(* one before it and its percentage that change over the one before it.    *)
(* ---------------------------------------------------------------------- *)
C7_DailyChangeGuard ==
    \A i \in DOMAIN calls :
        Is5dCall(calls[i]) =>
            LET closes == calls[i].ret.closes
                t == calls[i].args[1]
                n == Len(closes)
            IN  /\ Count(out, "error") = 0
                /\ Len(out) >= 7
                /\ SubSeq(KindsOf(out), 1, 5)
                     = <<"header", "chart", "current_price", "market_cap", "high_low">>
                /\ \A j \in DOMAIN out : out[j].ticker = t
                /\ Count(out, "summary") = 1
                /\ Count(out, "news_header") = 1
                /\ n < 2 => /\ Count(out, "daily_change") = 0
                            /\ out[6].kind = "summary"
                            /\ out[7].kind = "news_header"
                /\ n >= 2 => /\ Count(out, "daily_change") = 1
                             /\ out[6].kind = "daily_change"
                             /\ out[6].change = closes[n] - closes[n - 1]
                             /\ LET d == out[6].pct * closes[n - 1] - out[6].change * 10000
                                IN  2 * d <= closes[n - 1] /\ 2 * (-d) <= closes[n - 1]
                             /\ out[7].kind = "summary"
                             /\ out[8].kind = "news_header"

\* a ticker whose 5-day history holds a single row has been rendered
C7_Witness ==
    \E i \in DOMAIN calls :
        /\ Is5dCall(calls[i])
        /\ Len(calls[i].ret.closes) = 1
        /\ Has(out, "summary")
        /\ ~Has(out, "daily_change")

(* ---------------------------------------------------------------------- *)
(* C4.  When the history of the selected period is empty, the page gets a  *)
(* warning for that ticker and nothing else: no chart, no metrics, no      *)
(* summary, no news, no error; neither the 5-day history nor the news is   *)
(* asked for; and the loop moves on to the next ticker.                    *)
(* ---------------------------------------------------------------------- *)
C4_EmptyHistory ==
    /\ [](\A i \in DOMAIN calls :
            (IsPeriodCall(calls[i]) /\ calls[i].ret.closes = <<>>) =>
                /\ out = <<Ev("warning", calls[i].args[1])>>
                /\ i = Len(calls)
                /\ \A j \in DOMAIN calls :
                      /\ calls[j].fn # "news"
                      /\ calls[j].fn = "stock" => calls[j].args[2] = period)
    /\ [][(\E i \in DOMAIN calls' :
              IsPeriodCall(calls'[i]) /\ calls'[i].ret.closes = <<>>)
            => (pc' = "loop" /\ idx' = idx + 1 /\ tickers' = tickers)]_vars

\* the first ticker got only a warning under the period the user switched to,
\* while its history under the other period holds data
C4_Witness ==
    /\ idx = 2
    /\ Len(tickers) = 2
    /\ period # DEFAULT_PERIOD
    /\ out = <<Ev("warning", tickers[1])>>
    /\ stock_cache[<<tickers[1], DEFAULT_PERIOD>>].present
    /\ stock_cache[<<tickers[1], DEFAULT_PERIOD>>].val.closes # <<>>

(* ---------------------------------------------------------------------- *)
(* C6.  While the API key is empty no news is shown for any ticker: the    *)
(* news section holds the prompt to enter a key and nothing else (no item, *)
(* no "no recent news" notice, no error), get_company_news is not called,  *)
(* and nothing is ever stored under an empty key.                          *)
(* ---------------------------------------------------------------------- *)
C6_NewsDisabled ==
    /\ \A t \in Tickers : ~news_cache[<<t, "">>].present
    /\ finnhub_api = "" =>
          /\ \A i \in DOMAIN calls : calls[i].fn # "news"
          /\ Count(out, "news_item") = 0
          /\ Count(out, "no_news") = 0
          /\ Has(out, "summary") => Has(out, "news_header")
          /\ Has(out, "news_header") =>
                /\ Count(out, "error") = 0
                /\ out[Len(out)].kind = "news_prompt"
                /\ out[Len(out) - 1].kind = "news_header"

\* the prompt is shown for a ticker whose news, fetched under a key the user
\* has since removed, is still in the store
C6_Witness ==
    /\ finnhub_api = ""
    /\ Has(out, "news_prompt")
    /\ \E k \in ApiKeys \ {""} :
          /\ news_cache[<<out[1].ticker, k>>].present
          /\ news_cache[<<out[1].ticker, k>>].val.items # <<>>

(* ---------------------------------------------------------------------- *)
(* C3.  An exception raised while a ticker is processed stays within that  *)
(* ticker: the page gets exactly one error message, naming the ticker, as  *)
(* the last element of its section; the loop moves on to the next position *)
(* of the same list; the cached data of the other tickers is untouched;    *)
(* and the cycle ends only when the list is exhausted.                     *)
(* ---------------------------------------------------------------------- *)
Raises(c) == c.failed /\ c.fn \in {"stock", "info"}

C8_FailedFetchNotCached ==
    \A i \in DOMAIN calls :
        calls[i].failed =>
            LET a == calls[i].args
            IN  CASE calls[i].fn = "stock" ->
                        ~Fresh(stock_cache[<<a[1], a[2]>>], clock, TTL_STOCK)
                  [] calls[i].fn = "info" ->
                        ~Fresh(info_cache[<<a[1]>>], clock, TTL_INFO)
                  [] calls[i].fn = "news" ->
                        ~Fresh(news_cache[<<a[1], a[2]>>], clock, TTL_NEWS)

(* ---------------------------------------------------------------------- *)
(* C9.  A cached call returns only what was computed for its own function  *)
(* and arguments: every entry of a store holds a value computed for the    *)
(* arguments it is filed under, and every value a call returns was         *)
(* computed for that call's ticker and period (price history), ticker      *)
(* (company info), or ticker and API key (news).                           *)
(* ---------------------------------------------------------------------- *)
C9_KeysDistinguishArguments ==
    /\ \A k \in StockKeys :
          stock_cache[k].present =>
              stock_cache[k].val.ticker = k[1] /\ stock_cache[k].val.period = k[2]
    /\ \A k \in InfoKeys :
          info_cache[k].present => info_cache[k].val.ticker = k[1]
    /\ \A k \in NewsKeys :
          news_cache[k].present =>
              news_cache[k].val.symbol = k[1] /\ news_cache[k].val.api_key = k[2]
    /\ \A i \in DOMAIN calls :
          LET c == calls[i]
          IN  /\ (c.fn = "stock" /\ ~c.failed) =>
                    c.ret.ticker = c.args[1] /\ c.ret.period = c.args[2]
              /\ (c.fn = "info" /\ ~c.failed) => c.ret.ticker = c.args[1]
              /\ c.fn = "news" =>
                    c.ret.symbol = c.args[1] /\ c.ret.api_key = c.args[2]

\* after the user switched keys, a ticker's news is served from the store
\* under the new key while the store still holds different news of the same
\* ticker under the old key, and both of its price histories
C9_Witness ==
    \E i \in DOMAIN calls :
        LET c == calls[i]
            t == c.args[1]
        IN  /\ c.fn = "news"
            /\ c.hit
            /\ c.args[2] = "k2"
            /\ news_cache[<<t, "k1">>].present
            /\ news_cache[<<t, "k1">>].val.items # c.ret.items
            /\ stock_cache[<<t, PERIOD_5D>>].present
            /\ stock_cache[<<t, period>>].present
            /\ stock_cache[<<t, PERIOD_5D>>].val.closes # stock_cache[<<t, period>>].val.closes

(* ---------------------------------------------------------------------- *)
(* C2.  get_stock_data and get_info_cached: a call made less than 3600 s   *)
(* after a successful fetch for the same arguments returns the result of   *)
(* that fetch and does not ask the provider; any other call asks the       *)
(* provider once, and the result of a successful fetch is what the store   *)
(* then holds for these arguments, stamped with the time of the fetch.     *)
(* ---------------------------------------------------------------------- *)
C2_Step(c, before, after, ttl) ==
    IF before.present /\ c.t - before.at < ttl
    THEN c.hit /\ ~c.failed /\ c.ret = before.val /\ after = before
    ELSE /\ ~c.hit
         /\ c.failed => after = before
         /\ ~c.failed => /\ after = [present |-> TRUE, val |-> c.ret, at |-> c.t]
                         /\ c.ret.asof = c.t

C2_CacheProperty ==
    [][\A i \in DOMAIN calls' :
          LET c == calls'[i]
          IN  /\ c.t = clock
              /\ c.fn = "stock" =>
                    C2_Step(c, stock_cache[<<c.args[1], c.args[2]>>],
                            stock_cache'[<<c.args[1], c.args[2]>>], 3600)
              /\ c.fn = "info" =>
                    C2_Step(c, info_cache[<<c.args[1]>>],
                            info_cache'[<<c.args[1]>>], 3600)]_vars

\* a history fetched when the session started has expired and been fetched
\* again, and a later call is served the new one: the 5-day history of the
\* ticker is one expiry step old, so the ticker was rendered then from the
\* first history, which was still live
C2_Witness ==
    \E i \in DOMAIN calls :
        LET c == calls[i]
        IN  /\ c.fn = "stock"
            /\ c.args[2] = period
            /\ c.hit
            /\ clock = 3600
            /\ c.ret.asof = 3600
            /\ stock_cache[<<c.args[1], PERIOD_5D>>].present
            /\ stock_cache[<<c.args[1], PERIOD_5D>>].at = 1800

====
